---- MODULE Spec2Model ----
(***************************************************************************)
(* A model of audiometry.py: dictify (XML element tree -> nested mapping), *)
(* parse_audiometry (nested mapping -> ear side -> frequency -> threshold) *)
(* and the averaging branch of plot_audiogram.                             *)
(*                                                                         *)
(* Python strings are modelled as sequences of one-character strings, so   *)
(* that re.sub and int() are computed character by character.              *)
(***************************************************************************)
EXTENDS Integers, Sequences, FiniteSets, TLC

VARIABLES
    tree,          \* the element tree held by ET (root element r)
    d,             \* the normalized mapping returned by dictify
    pc,            \* position of the running call
    exc,           \* the exception that left the call, "none" if none did
    tests,         \* the iterable of the for loop of line 61
    ti,            \* index of the next test of that loop
    measured_data, \* local of parse_audiometry (line 64)
    s,             \* index of the next Measured block (line 67)
    earside,       \* local of parse_audiometry (line 68)
    nfreqs,        \* local of parse_audiometry (line 71)
    tone,          \* index of the next tone point (line 74)
    audiogram,     \* local of parse_audiometry (line 55)
    ret,           \* the value handed to the caller, NoValue before a return
    tree0,         \* history: the element tree as it was before the call
    plotIn,        \* plot_audiogram: the list of audiograms it is given
    plotOut        \* plot_audiogram: what it hands to plt.plot

vars == <<tree, d, pc, exc, tests, ti, measured_data, s, earside, nfreqs,
          tone, audiogram, ret, tree0, plotIn, plotOut>>

-----------------------------------------------------------------------------
(* Bounds of the model *)

\* number of TonePoint elements in a document of the value family
MaxPoints == 3
\* number of Test elements in a document of the structure family
MaxTests == 2
\* number of children of the root in a tree of the normalizer family
MaxKids == 2
\* number of audiograms in the list given to plot_audiogram
MaxSubjects == 2

-----------------------------------------------------------------------------
(* Python strings used as tags, keys and texts *)

K_text        == <<"_","t","e","x","t">>
K_SaData      == <<"S","a","D","a","t","a">>
K_Session     == <<"S","e","s","s","i","o","n">>
K_Test        == <<"T","e","s","t">>
K_TestName    == <<"T","e","s","t","N","a","m","e">>
K_Data        == <<"D","a","t","a">>
K_RecordedData == <<"R","e","c","o","r","d","e","d","D","a","t","a">>
K_Measured    == <<"M","e","a","s","u","r","e","d">>
K_Tone        == <<"T","o","n","e">>
K_Earside     == <<"E","a","r","s","i","d","e">>
K_TonePoint   == <<"T","o","n","e","P","o","i","n","t">>
K_Frequency   == <<"F","r","e","q","u","e","n","c","y">>
K_IntensityUT == <<"I","n","t","e","n","s","i","t","y","U","T">>
K_Left        == <<"L","e","f","t">>
K_Right       == <<"R","i","g","h","t">>
K_QuickSIN    == <<"Q","u","i","c","k","S","I","N">>
K_Other       == <<"O","t","h","e","r">>
K_id          == <<"i","d">>

\* a namespace wrapper as ElementTree writes it in front of a tag: "{u}"
NsU == <<"{","u","}">>
NsV == <<"{","v","}">>

NoValue == [kind |-> "none"]

-----------------------------------------------------------------------------
(* Python values: str, list, dict, int *)

StrV(x)  == [kind |-> "str",  s |-> x]
ListV(x) == [kind |-> "list", l |-> x]
DictV(x) == [kind |-> "dict", m |-> x]
IntV(x)  == [kind |-> "int",  n |-> x]
\* the audiogram dict: its entries in insertion order
AudiogramV(x) == [kind |-> "audiogram", l |-> x]

\* m[k] = v on a mapping
MapSet(m, k, v) == [x \in (DOMAIN m) \cup {k} |-> IF x = k THEN v ELSE m[x]]

\* outcome of an expression: a value, or the exception it raised
Ok(v)    == [ok |-> TRUE,  v |-> v,       err |-> "none"]
Raise(e) == [ok |-> FALSE, v |-> NoValue, err |-> e]

-----------------------------------------------------------------------------
(* re.sub('{.*}', '', tag): the match runs from the first "{" to the last  *)
(* "}" after it (".*" is greedy); without such a pair the tag is unchanged *)

IndicesOf(str, c) == {i \in 1..Len(str) : str[i] = c}

Minimum(S) == CHOOSE x \in S : \A y \in S : x <= y
Maximum(S) == CHOOSE x \in S : \A y \in S : x >= y

ReSubNs(tag) ==
    LET opens  == IndicesOf(tag, "{")
        closes == IndicesOf(tag, "}")
    IN  IF opens = {} \/ closes = {} THEN tag
        ELSE LET i == Minimum(opens)
                 j == Maximum(closes)
             IN  IF j < i THEN tag
                 ELSE SubSeq(tag, 1, i - 1) \o SubSeq(tag, j + 1, Len(tag))

-----------------------------------------------------------------------------
(* xml.etree.ElementTree.Element *)

Element(tag, attrib, text, children) ==
    [tag |-> tag, attrib |-> attrib, text |-> text, children |-> children]

NoAttrib == [k \in {} |-> <<>>]

-----------------------------------------------------------------------------
(* dictify(r, False): the mapping of one element. The result carries the   *)
(* mapping, the element as the call leaves it (x.tag is assigned) and      *)
(* whether the call returned or raised AttributeError.                     *)

RECURSIVE DictifyInner(_)
RECURSIVE DictifyChildren(_, _, _)

\* lines 32-36: the loop over r.findall("./*"), from child i on
DictifyChildren(acc, kids, i) ==
    IF i > Len(kids) THEN [ok |-> TRUE, d |-> acc, kids |-> kids]
    ELSE
      LET x   == [kids[i] EXCEPT !.tag = ReSubNs(kids[i].tag)]
          d2  == IF x.tag \notin DOMAIN acc THEN MapSet(acc, x.tag, ListV(<<>>)) ELSE acc
      IN  IF d2[x.tag].kind # "list"
            THEN \* 'str' object has no attribute 'append'
                 [ok |-> FALSE, d |-> d2, kids |-> [kids EXCEPT ![i] = x]]
            ELSE LET sub == DictifyInner(x)
                 IN  IF ~sub.ok
                       THEN [ok |-> FALSE, d |-> d2, kids |-> [kids EXCEPT ![i] = sub.el]]
                       ELSE DictifyChildren(
                              MapSet(d2, x.tag, ListV(Append(d2[x.tag].l, DictV(sub.d)))),
                              [kids EXCEPT ![i] = sub.el], i + 1)

DictifyInner(r) ==
    LET d0 == [k \in DOMAIN r.attrib |-> StrV(r.attrib[k])]
        d1 == IF r.text # <<>> THEN MapSet(d0, K_text, StrV(r.text)) ELSE d0
        lp == DictifyChildren(d1, r.children, 1)
    IN  [ok |-> lp.ok, d |-> lp.d, el |-> [r EXCEPT !.children = lp.kids]]

\* dictify(r, True), lines 27-28
Dictify(r) ==
    LET inner == DictifyInner(r)
    IN  [ok |-> inner.ok,
         d  |-> IF inner.ok THEN DictV(ReSubNs(r.tag) :> DictV(inner.d)) ELSE NoValue,
         el |-> inner.el]

-----------------------------------------------------------------------------
(* Subscripting, len() and int() on Python values *)

\* v[key] with a str key
GetKey(v, key) ==
    CASE v.kind = "dict" -> IF key \in DOMAIN v.m THEN Ok(v.m[key]) ELSE Raise("KeyError")
      [] OTHER           -> Raise("TypeError")

\* v[i] with an int index i >= 0
GetIdx(v, i) ==
    CASE v.kind = "list" -> IF i < Len(v.l) THEN Ok(v.l[i + 1]) ELSE Raise("IndexError")
      [] v.kind = "str"  -> IF i < Len(v.s) THEN Ok(StrV(<<v.s[i + 1]>>)) ELSE Raise("IndexError")
      [] v.kind = "dict" -> Raise("KeyError")
      [] OTHER           -> Raise("TypeError")

\* one step of a subscript chain
Key(k) == [idx |-> FALSE, key |-> k,    i |-> 0]
Idx(i) == [idx |-> TRUE,  key |-> <<>>, i |-> i]

RECURSIVE WalkFrom(_, _, _)
WalkFrom(o, path, j) ==
    IF ~o.ok \/ j > Len(path) THEN o
    ELSE WalkFrom(IF path[j].idx THEN GetIdx(o.v, path[j].i) ELSE GetKey(o.v, path[j].key),
                  path, j + 1)

\* v[p1][p2]...[pn], evaluated left to right
Walk(v, path) == WalkFrom(Ok(v), path, 1)

\* len(v)
PyLen(v) ==
    CASE v.kind = "list" -> Len(v.l)
      [] v.kind = "str"  -> Len(v.s)
      [] v.kind = "dict" -> Cardinality(DOMAIN v.m)
      [] OTHER           -> 0

Whitespace == {" ", "\t", "\n", "\r"}

DigitValue ==
    ("0" :> 0) @@ ("1" :> 1) @@ ("2" :> 2) @@ ("3" :> 3) @@ ("4" :> 4) @@
    ("5" :> 5) @@ ("6" :> 6) @@ ("7" :> 7) @@ ("8" :> 8) @@ ("9" :> 9)

Digits == DOMAIN DigitValue

\* str.strip()
Strip(str) ==
    LET keep == {i \in 1..Len(str) : str[i] \notin Whitespace}
    IN  IF keep = {} THEN <<>> ELSE SubSeq(str, Minimum(keep), Maximum(keep))

\* digits with single underscores between them: "1000", "1_000", not "_1", "1__0"
IsDigitString(str) ==
    /\ Len(str) > 0
    /\ \A i \in 1..Len(str) : str[i] \in Digits \cup {"_"}
    /\ str[1] # "_" /\ str[Len(str)] # "_"
    /\ \A i \in 1..(Len(str) - 1) : ~(str[i] = "_" /\ str[i + 1] = "_")

RECURSIVE DecimalValue(_, _)
\* the number written by the first n characters of a digit string
DecimalValue(str, n) ==
    IF n = 0 THEN 0
    ELSE IF str[n] = "_" THEN DecimalValue(str, n - 1)
    ELSE 10 * DecimalValue(str, n - 1) + DigitValue[str[n]]

\* int(v) of a str: surrounding whitespace, an optional sign, decimal digits
PyInt(v) ==
    IF v.kind # "str" THEN Raise("TypeError")
    ELSE LET t    == Strip(v.s)
             sgn  == IF t # <<>> /\ t[1] \in {"+", "-"} THEN t[1] ELSE ""
             body == IF sgn = "" THEN t ELSE Tail(t)
         IN  IF ~IsDigitString(body) THEN Raise("ValueError")
             ELSE Ok(IntV(IF sgn = "-" THEN 0 - DecimalValue(body, Len(body))
                                       ELSE DecimalValue(body, Len(body))))

-----------------------------------------------------------------------------
(* A dict as Python keeps it: entries [k, v] in insertion order *)

HasKey(od, k) == \E i \in 1..Len(od) : od[i].k = k

Lookup(od, k) == od[CHOOSE i \in 1..Len(od) : od[i].k = k].v

KeysOf(od) == {od[i].k : i \in 1..Len(od)}

ODictSetKeepFirst(od, k, v) ==
    IF HasKey(od, k) THEN od ELSE Append(od, [k |-> k, v |-> v])

\* od[k] = v: an existing key keeps its place and takes the new value
ODictSet(od, k, v) ==
    IF HasKey(od, k)
      THEN [i \in 1..Len(od) |-> IF od[i].k = k THEN [k |-> k, v |-> v] ELSE od[i]]
      ELSE Append(od, [k |-> k, v |-> v])

InitEarKeepExisting(aud, ear) ==
    IF HasKey(aud, ear) THEN aud ELSE Append(aud, [k |-> ear, v |-> <<>>])

\* audiogram[earside] = {}  (line 69)
InitEar(aud, ear) == ODictSet(aud, ear, <<>>)

SetThresholdAppends(aud, ear, freq, threshold) ==
    ODictSet(aud, ear, Append(Lookup(aud, ear), [k |-> freq, v |-> threshold]))

\* audiogram[earside][freq] = threshold  (line 77)
SetThreshold(aud, ear, freq, threshold) ==
    ODictSet(aud, ear, ODictSet(Lookup(aud, ear), freq, threshold))

-----------------------------------------------------------------------------
(* The normalizer on its own: dictify(r) called on a small well-formed     *)
(* element tree (root, children, grandchildren), with attributes, texts,   *)
(* qualified tags and interleaved children.                                *)

Letters == <<"a", "b", "c", "d", "e">>

\* the text of the i-th child: distinct per position
KidText(i) == <<Letters[((i - 1) % Len(Letters)) + 1]>>

KidTags == {K_Test, NsU \o K_Test, NsV \o K_Test, K_Other, K_text}

KidShapes == {"plain", "nested", "clash"}

\* the i-th child of the root
Kid(tag, shape, i) ==
    CASE shape = "plain"  -> Element(tag, NoAttrib, KidText(i), <<>>)
      [] shape = "nested" -> Element(tag, NoAttrib, KidText(i),
                                <<Element(NsU \o K_id, NoAttrib, <<>>, <<>>)>>)
      [] shape = "clash"  -> Element(tag, (K_id :> <<"1">>), KidText(i),
                                <<Element(NsU \o K_id, NoAttrib, <<>>, <<>>)>>)

RootAttribs == {NoAttrib, (K_id :> <<"7">>), (K_Test :> <<"7">>), (K_text :> <<"7">>)}

KidChoices == KidTags \X KidShapes

\* tree is a root with up to MaxKids children
IsNormalizerTree ==
    \E tg \in {K_SaData, NsU \o K_SaData}, at \in RootAttribs, tx \in {<<>>, <<"r">>} :
        \E n \in 0..MaxKids : \E ks \in [1..n -> KidChoices] :
            tree = Element(tg, at, tx, [i \in 1..n |-> Kid(ks[i][1], ks[i][2], i)])

\* the variables a call does not use
Idle ==
    /\ tests = NoValue /\ ti = 0 /\ measured_data = NoValue /\ s = 0
    /\ earside = NoValue /\ nfreqs = 0 /\ tone = 0
    /\ audiogram = <<>> /\ plotIn = <<>> /\ plotOut = NoValue

InitDictify ==
    /\ IsNormalizerTree
    /\ tree0 = tree
    /\ d = NoValue /\ pc = "call" /\ exc = "none" /\ ret = NoValue
    /\ Idle

\* d = dictify(r): lines 27-37, the whole call
DictifyCall ==
    /\ pc = "call"
    /\ LET res == Dictify(tree)
       IN  /\ tree' = res.el
           /\ d' = res.d
           /\ ret' = res.d
           /\ pc' = IF res.ok THEN "returned" ELSE "raised"
           /\ exc' = IF res.ok THEN "none" ELSE "AttributeError"
    /\ UNCHANGED <<tests, ti, measured_data, s, earside, nfreqs, tone,
                   audiogram, tree0, plotIn, plotOut>>

NextDictify == DictifyCall

SpecDictify == InitDictify /\ [][NextDictify]_vars

-----------------------------------------------------------------------------
(* parse_audiometry, lines 51-79 *)

\* the subscript chains of the source
PathTests     == <<Key(K_SaData), Key(K_Session), Idx(0), Key(K_Test)>>
PathTestName  == <<Key(K_TestName), Idx(0), Key(K_text)>>
PathMeasured  == <<Key(K_Data), Idx(0), Key(K_RecordedData), Idx(0), Key(K_Measured)>>
PathEarside(b)   == <<Idx(b), Key(K_Tone), Idx(0), Key(K_Earside), Idx(0), Key(K_text)>>
PathTonePoint(b) == <<Idx(b), Key(K_Tone), Idx(0), Key(K_TonePoint)>>
PathFrequency(b, p) ==
    <<Idx(b), Key(K_Tone), Idx(0), Key(K_TonePoint), Idx(p), Key(K_Frequency), Idx(0), Key(K_text)>>
PathIntensityUT(b, p) ==
    <<Idx(b), Key(K_Tone), Idx(0), Key(K_TonePoint), Idx(p), Key(K_IntensityUT), Idx(0), Key(K_text)>>

TestNameTextOrEmpty(test) ==
    IF Walk(test, PathTestName).ok THEN Walk(test, PathTestName) ELSE Ok(StrV(<<>>))

\* test['TestName'][0]['_text']  (line 63)
TestNameText(test) == Walk(test, PathTestName)

IsToneAlways(v) == TRUE

\* v == 'Tone'  (line 63)
IsTone(v) == v = StrV(K_Tone)

ToIntZeroOnError(v) == IF PyInt(v).err = "ValueError" THEN Ok(IntV(0)) ELSE PyInt(v)

\* int(...) as lines 75 and 76 call it: the error is not caught
ToInt(v) == PyInt(v)

\* a str is hashable, a list or a dict is not
Hashable(v) == v.kind \in {"str", "int"}

\* lines 51-57: the tree is parsed and normalized
Normalize ==
    /\ pc = "call"
    /\ LET res == Dictify(tree)
       IN  /\ tree' = res.el
           /\ d' = res.d
           /\ pc' = IF res.ok THEN "iter" ELSE "raised"
           /\ exc' = IF res.ok THEN "none" ELSE "AttributeError"
    /\ UNCHANGED <<tests, ti, measured_data, s, earside, nfreqs, tone,
                   audiogram, ret, tree0, plotIn, plotOut>>

\* line 61: the iterable d['SaData']['Session'][0]['Test'] is evaluated
EnterLoop ==
    /\ pc = "iter"
    /\ LET it == Walk(d, PathTests)
       IN  /\ tests' = it.v
           /\ pc' = IF it.ok THEN "for_test" ELSE "raised"
           /\ exc' = it.err
    /\ ti' = 0
    /\ UNCHANGED <<tree, d, measured_data, s, earside, nfreqs, tone,
                   audiogram, ret, tree0, plotIn, plotOut>>

\* lines 61-64: the next test of the loop; line 79 when there is none
ForTest ==
    /\ pc = "for_test"
    /\ IF ti >= PyLen(tests)
         THEN /\ pc' = "returned" /\ ret' = AudiogramV(audiogram) /\ exc' = exc
              /\ UNCHANGED <<ti, measured_data, s>>
         ELSE LET test == GetIdx(tests, ti).v
                  name == TestNameText(test)
                  md   == Walk(test, PathMeasured)
              IN  /\ ret' = ret
                  /\ IF ~name.ok
                       THEN /\ pc' = "raised" /\ exc' = name.err
                            /\ UNCHANGED <<ti, measured_data, s>>
                       ELSE IF ~IsTone(name.v)
                         THEN /\ pc' = "for_test" /\ exc' = exc
                              /\ ti' = ti + 1
                              /\ UNCHANGED <<measured_data, s>>
                         ELSE IF ~md.ok
                           THEN /\ pc' = "raised" /\ exc' = md.err
                                /\ UNCHANGED <<ti, measured_data, s>>
                           ELSE /\ pc' = "for_s" /\ exc' = exc
                                /\ measured_data' = md.v
                                /\ s' = 0
                                /\ ti' = ti
    /\ UNCHANGED <<tree, d, tests, earside, nfreqs, tone, audiogram, tree0, plotIn, plotOut>>

\* lines 67-71: the next Measured block; back to the tests when there is none
ForMeasured ==
    /\ pc = "for_s"
    /\ IF s >= PyLen(measured_data)
         THEN /\ pc' = "for_test" /\ exc' = exc
              /\ ti' = ti + 1
              /\ UNCHANGED <<earside, audiogram, nfreqs, tone>>
         ELSE LET es == Walk(measured_data, PathEarside(s))
                  tp == Walk(measured_data, PathTonePoint(s))
              IN  /\ ti' = ti
                  /\ IF ~es.ok
                       THEN /\ pc' = "raised" /\ exc' = es.err
                            /\ UNCHANGED <<earside, audiogram, nfreqs, tone>>
                       ELSE IF ~Hashable(es.v)
                         THEN /\ pc' = "raised" /\ exc' = "TypeError"
                              /\ earside' = es.v
                              /\ UNCHANGED <<audiogram, nfreqs, tone>>
                         ELSE /\ earside' = es.v
                              /\ audiogram' = InitEar(audiogram, es.v.s)
                              /\ IF ~tp.ok
                                   THEN /\ pc' = "raised" /\ exc' = tp.err
                                        /\ UNCHANGED <<nfreqs, tone>>
                                   ELSE /\ pc' = "for_tone" /\ exc' = exc
                                        /\ nfreqs' = PyLen(tp.v)
                                        /\ tone' = 0
    /\ UNCHANGED <<tree, d, tests, s, measured_data, ret, tree0, plotIn, plotOut>>

\* lines 74-77: the next tone point of the block; on to the next block when
\* there is none
ForTone ==
    /\ pc = "for_tone"
    /\ IF tone >= nfreqs
         THEN /\ pc' = "for_s" /\ exc' = exc
              /\ s' = s + 1
              /\ UNCHANGED <<tone, audiogram>>
         ELSE LET ft   == Walk(measured_data, PathFrequency(s, tone))
                  freq == IF ft.ok THEN ToInt(ft.v) ELSE ft
                  ut   == Walk(measured_data, PathIntensityUT(s, tone))
                  threshold == IF ut.ok THEN ToInt(ut.v) ELSE ut
              IN  /\ s' = s
                  /\ IF ~freq.ok
                       THEN /\ pc' = "raised" /\ exc' = freq.err
                            /\ UNCHANGED <<tone, audiogram>>
                       ELSE IF ~threshold.ok
                         THEN /\ pc' = "raised" /\ exc' = threshold.err
                              /\ UNCHANGED <<tone, audiogram>>
                         ELSE /\ pc' = "for_tone" /\ exc' = exc
                              /\ tone' = tone + 1
                              /\ audiogram' = SetThreshold(audiogram, earside.s,
                                                           freq.v.n, threshold.v.n)
    /\ UNCHANGED <<tree, d, tests, ti, measured_data, earside, nfreqs, ret,
                   tree0, plotIn, plotOut>>

Next == Normalize \/ EnterLoop \/ ForTest \/ ForMeasured \/ ForTone

-----------------------------------------------------------------------------
(* The documents given to parse_audiometry *)

\* a child that is left out of its parent
Missing == <<"<missing>">>

Leaf(ns, name, text) == Element(ns \o name, NoAttrib, text, <<>>)

OptLeaf(ns, name, text) == IF text = Missing THEN <<>> ELSE <<Leaf(ns, name, text)>>

Node(ns, name, children) == Element(ns \o name, NoAttrib, <<>>, children)

TonePointEl(ns, ftext, utext) ==
    Node(ns, K_TonePoint, OptLeaf(ns, K_Frequency, ftext) \o OptLeaf(ns, K_IntensityUT, utext))

MeasuredEl(ns, eartext, points) ==
    Node(ns, K_Measured, <<Node(ns, K_Tone, OptLeaf(ns, K_Earside, eartext) \o points)>>)

TestEl(ns, nametext, measured) ==
    Node(ns, K_Test,
         OptLeaf(ns, K_TestName, nametext)
         \o <<Node(ns, K_Data, <<Node(ns, K_RecordedData, measured)>>)>>)

DocEl(ns, testEls) == Node(ns, K_SaData, <<Node(ns, K_Session, testEls)>>)

\* threshold texts, one per position, all of different value
ThrTexts ==
    << <<"2","0">>, <<"-","5">>, <<"3","5">>, <<"+","1","5">>, <<" ","4","0">>,
       <<"0">>, <<"2","5">>, <<"1","0">>, <<"-","1","0">>, <<"5","5">> >>

ThrText(i) == ThrTexts[((i - 1) % Len(ThrTexts)) + 1]

\* frequency texts: 1000 is written in two ways
FreqText(kind, i) ==
    CASE kind = "f1000" -> IF i % 2 = 1 THEN <<"1","0","0","0">> ELSE <<" ","1","0","0","0">>
      [] kind = "f2000" -> <<"2","0","0","0">>

PointKinds == {"f1000", "f2000"}

Ears == {K_Left, K_Right}

\* the increasing enumeration of a set of numbers
SortedSeq(S) ==
    [k \in 1..Cardinality(S) |-> CHOOSE x \in S : Cardinality({y \in S : y <= x}) = k]

\* the last position of the run that starts at i, runs starting at the positions in S
RunEnd(S, i, n) == Minimum({j \in S : j > i} \cup {n + 1}) - 1

\* The value family: a document of the expected shape, written as the list of its tone points, each
\* saying whether it opens a new Test, a new Measured block or continues the
\* block, the ear side of a block it opens, and its frequency.
ItemChoices ==
    [start : {"point"}, ear : {K_Left}, kind : PointKinds]
    \cup [start : {"block", "test"}, ear : Ears, kind : PointKinds]

ItemLists ==
    UNION { {its \in [1..n -> ItemChoices] : its[1].start = "test"} : n \in 1..MaxPoints }

ValueDoc(ns, its) ==
    LET n      == Len(its)
        tstart == {i \in 1..n : its[i].start = "test"}
        bstart == {i \in 1..n : its[i].start # "point"}
        point(i) == TonePointEl(ns, FreqText(its[i].kind, i), ThrText(i))
        block(i) == MeasuredEl(ns, its[i].ear,
                               [k \in 1..(RunEnd(bstart, i, n) - i + 1) |-> point(i + k - 1)])
        blocksOf(i) == SortedSeq({j \in bstart : i <= j /\ j <= RunEnd(tstart, i, n)})
        test(i)  == TestEl(ns, K_Tone, [k \in 1..Len(blocksOf(i)) |-> block(blocksOf(i)[k])])
        ts       == SortedSeq(tstart)
    IN  DocEl(ns, [k \in 1..Len(ts) |-> test(ts[k])])

\* tree is a document of the value family
IsValueDoc == \E its \in ItemLists : tree = ValueDoc(<<>>, its)

\* The structure family: a list of tests, each of one of these variants
TestVariants ==
    {"tone", "quicksin", "quicksin_data", "no_testname", "empty_testname",
     "no_data", "no_recordeddata", "no_measured", "no_tone", "no_earside",
     "empty_earside", "no_tonepoint", "no_frequency", "empty_frequency",
     "no_intensity", "bad_frequency", "bad_intensity", "bad_frequency_no_intensity",
     "bad_frequency_later"}

\* the i-th test of a document, of variant v
VariantTest(ns, v, i) ==
    LET ear   == IF i % 2 = 1 THEN K_Left ELSE K_Right
        f     == <<"1","0","0","0">>
        good  == TonePointEl(ns, f, ThrText(i))
        with(nametext, eartext, points) == TestEl(ns, nametext, <<MeasuredEl(ns, eartext, points)>>)
    IN  CASE v = "tone"            -> with(K_Tone, ear, <<good>>)
          [] v = "quicksin"        -> Node(ns, K_Test, <<Leaf(ns, K_TestName, K_QuickSIN)>>)
          [] v = "quicksin_data"   -> with(K_QuickSIN, Missing, <<TonePointEl(ns, <<"1","k">>, Missing)>>)
          [] v = "no_testname"     -> with(Missing, ear, <<good>>)
          [] v = "empty_testname"  -> with(<<>>, ear, <<good>>)
          [] v = "no_data"         -> Node(ns, K_Test, <<Leaf(ns, K_TestName, K_Tone)>>)
          [] v = "no_recordeddata" -> Node(ns, K_Test, <<Leaf(ns, K_TestName, K_Tone),
                                                        Node(ns, K_Data, <<>>)>>)
          [] v = "no_measured"     -> TestEl(ns, K_Tone, <<>>)
          [] v = "no_tone"         -> TestEl(ns, K_Tone, <<Node(ns, K_Measured, <<>>)>>)
          [] v = "no_earside"      -> with(K_Tone, Missing, <<good>>)
          [] v = "empty_earside"   -> with(K_Tone, <<>>, <<good>>)
          [] v = "no_tonepoint"    -> with(K_Tone, ear, <<>>)
          [] v = "no_frequency"    -> with(K_Tone, ear, <<TonePointEl(ns, Missing, ThrText(i))>>)
          [] v = "empty_frequency" -> with(K_Tone, ear, <<TonePointEl(ns, <<>>, ThrText(i))>>)
          [] v = "no_intensity"    -> with(K_Tone, ear, <<TonePointEl(ns, f, Missing)>>)
          [] v = "bad_frequency"   -> with(K_Tone, ear, <<TonePointEl(ns, <<"1","k">>, ThrText(i))>>)
          [] v = "bad_intensity"   -> with(K_Tone, ear, <<TonePointEl(ns, f, <<"2","0",".","5">>)>>)
          [] v = "bad_frequency_no_intensity" ->
                                      with(K_Tone, ear, <<TonePointEl(ns, <<"1","k">>, Missing)>>)
          [] v = "bad_frequency_later" ->
                TestEl(ns, K_Tone,
                       <<MeasuredEl(ns, K_Left, <<good>>),
                         MeasuredEl(ns, K_Right,
                                    <<TonePointEl(ns, <<"2","0","0","0">>, ThrText(i + 1)),
                                      TonePointEl(ns, <<"1","k">>, ThrText(i + 2))>>)>>)

\* tree is a document of the structure family, its tags namespace-qualified: a
\* list of tests (none: a Session without Test), a root without Session, or a
\* root that is not SaData
IsStructureDoc ==
    \/ \E n \in 0..MaxTests : \E vs \in [1..n -> TestVariants] :
          tree = DocEl(NsU, [i \in 1..n |-> VariantTest(NsU, vs[i], i)])
    \/ tree = Node(NsU, K_SaData, <<>>)
    \/ tree = Node(NsU, K_Other, <<Node(NsU, K_Session, <<VariantTest(NsU, "tone", 1)>>)>>)

Init ==
    /\ IsValueDoc \/ IsStructureDoc
    /\ tree0 = tree
    /\ d = NoValue /\ pc = "call" /\ exc = "none" /\ ret = NoValue
    /\ Idle

Spec == Init /\ [][Next]_vars

-----------------------------------------------------------------------------
(* plot_audiogram on a list of audiograms, lines 142-160: the means handed *)
(* to plt.plot. A mean is kept as the column sum and the number of rows.   *)

RECURSIVE SumOver(_, _)
\* f[1] + ... + f[n]
SumOver(f, n) == IF n = 0 THEN 0 ELSE SumOver(f, n - 1) + f[n]

\* list(dict.keys()), list(dict.values())
KeyList(od)   == [i \in 1..Len(od) |-> od[i].k]
ValueList(od) == [i \in 1..Len(od) |-> od[i].v]

\* np.array(rows).mean(0): the mean of each column of the rows
ColumnMeans(rows) ==
    [i \in 1..Len(rows[1]) |->
        [sum |-> SumOver([n \in 1..Len(rows) |-> rows[n][i]], Len(rows)), count |-> Len(rows)]]

\* lines 144-153 and 158, 160: x and mean y of each ear as they are plotted
PlotMeans(audiograms) ==
    [x_left  |-> KeyList(Lookup(audiograms[1], K_Left)),
     x_right |-> KeyList(Lookup(audiograms[1], K_Right)),
     y_left_mean  |-> ColumnMeans([n \in 1..Len(audiograms) |-> ValueList(Lookup(audiograms[n], K_Left))]),
     y_right_mean |-> ColumnMeans([n \in 1..Len(audiograms) |-> ValueList(Lookup(audiograms[n], K_Right))])]

PlotAudiogram ==
    /\ pc = "call"
    /\ plotOut' = PlotMeans(plotIn)
    /\ pc' = "returned"
    /\ UNCHANGED <<tree, d, exc, tests, ti, measured_data, s, earside, nfreqs, tone,
                   audiogram, ret, tree0, plotIn>>

\* the audiograms of the subjects: every ear side of every subject has the same
\* frequencies, each subject's file listing them in its own order
PlotFreqSets == {{1000}, {1000, 2000}}

PlotThresholds == {10, 20, 30}

\* the orders in which a file can list the frequencies of F
Orders(F) == {o \in [1..Cardinality(F) -> F] : \A i, j \in 1..Cardinality(F) : o[i] = o[j] => i = j}

\* one ear side: the frequencies in order o with thresholds th
EarMapping(o, th) == [i \in 1..Len(o) |-> [k |-> o[i], v |-> th[o[i]]]]

AudiogramsOver(F) ==
    { <<[k |-> K_Left,  v |-> EarMapping(o, th)],
        [k |-> K_Right, v |-> EarMapping(SortedSeq(F), [f \in F |-> 15])]>> :
        o \in Orders(F), th \in [F -> PlotThresholds] }

PlotInputs ==
    UNION { [1..n -> AudiogramsOver(F)] : n \in 1..MaxSubjects, F \in PlotFreqSets }

InitPlot ==
    /\ plotIn \in PlotInputs
    /\ plotOut = NoValue
    /\ pc = "call" /\ exc = "none" /\ ret = NoValue /\ d = NoValue
    /\ tree = NoValue /\ tree0 = NoValue
    /\ tests = NoValue /\ ti = 0 /\ measured_data = NoValue /\ s = 0
    /\ earside = NoValue /\ nfreqs = 0 /\ tone = 0 /\ audiogram = <<>>

NextPlot == PlotAudiogram

SpecPlot == InitPlot /\ [][NextPlot]_vars

\* C8: the mean plotted for the left ear at a frequency is the arithmetic mean,
\* over all the audiograms, of their left thresholds at that frequency.
C8_MeanIsAlignedByFrequency ==
    pc = "returned" =>
        \A i \in 1..Len(plotOut.x_left) :
            /\ plotOut.y_left_mean[i].count = Len(plotIn)
            /\ plotOut.y_left_mean[i].sum =
                 SumOver([n \in 1..Len(plotIn) |->
                            Lookup(Lookup(plotIn[n], K_Left), plotOut.x_left[i])], Len(plotIn))

\* what does hold: the means are right when every audiogram lists the
\* frequencies in the order of the first
MeanRightForSameOrder ==
    (pc = "returned" /\ \A n \in 1..Len(plotIn) :
        KeyList(Lookup(plotIn[n], K_Left)) = KeyList(Lookup(plotIn[1], K_Left))) =>
        \A i \in 1..Len(plotOut.x_left) :
            plotOut.y_left_mean[i].sum =
                 SumOver([n \in 1..Len(plotIn) |->
                            Lookup(Lookup(plotIn[n], K_Left), plotOut.x_left[i])], Len(plotIn))

-----------------------------------------------------------------------------
(* The document as its author reads it: the elements of the tree, by their *)
(* local names. The properties below compare what parse_audiometry does    *)
(* with this reading of the tree it was given (tree0).                     *)

Range(f) == {f[i] : i \in DOMAIN f}

KidsNamed(e, name) == SelectSeq(e.children, LAMBDA c : ReSubNs(c.tag) = name)
HasKid(e, name)    == KidsNamed(e, name) # <<>>
FirstKid(e, name)  == KidsNamed(e, name)[1]
HasText(e, name)   == HasKid(e, name) /\ FirstKid(e, name).text # <<>>
TextOf(e, name)    == FirstKid(e, name).text

Parseable(text) == PyInt(StrV(text)).ok
IntOf(text)     == PyInt(StrV(text)).v.n

RootOk(doc) ==
    /\ ReSubNs(doc.tag) = K_SaData
    /\ HasKid(doc, K_Session)
    /\ HasKid(FirstKid(doc, K_Session), K_Test)

TestsOf(doc) == KidsNamed(FirstKid(doc, K_Session), K_Test)

IsToneTest(t) == HasText(t, K_TestName) /\ TextOf(t, K_TestName) = K_Tone

\* a test with its TestName text and, for a Tone test, Data/RecordedData/Measured
TestPathOk(t) ==
    /\ HasText(t, K_TestName)
    /\ IsToneTest(t) =>
         /\ HasKid(t, K_Data)
         /\ HasKid(FirstKid(t, K_Data), K_RecordedData)
         /\ HasKid(FirstKid(FirstKid(t, K_Data), K_RecordedData), K_Measured)

MeasuredOf(t) == KidsNamed(FirstKid(FirstKid(t, K_Data), K_RecordedData), K_Measured)

\* a Measured block with Tone, Earside text and at least one TonePoint
BlockPathOk(b) ==
    /\ HasKid(b, K_Tone)
    /\ HasText(FirstKid(b, K_Tone), K_Earside)
    /\ HasKid(FirstKid(b, K_Tone), K_TonePoint)

EarOf(b)    == TextOf(FirstKid(b, K_Tone), K_Earside)
PointsOf(b) == KidsNamed(FirstKid(b, K_Tone), K_TonePoint)

PointPathOk(p) == HasText(p, K_Frequency) /\ HasText(p, K_IntensityUT)

\* a tone point has Frequency or IntensityUT text that int() rejects
PointBadInt(p) ==
    \/ HasText(p, K_Frequency)   /\ ~Parseable(TextOf(p, K_Frequency))
    \/ HasText(p, K_IntensityUT) /\ ~Parseable(TextOf(p, K_IntensityUT))

\* what reading one tone point gives: Frequency first, then IntensityUT
PointDefect(p) ==
    IF ~HasText(p, K_Frequency) THEN "KeyError"
    ELSE IF ~Parseable(TextOf(p, K_Frequency)) THEN "ValueError"
    ELSE IF ~HasText(p, K_IntensityUT) THEN "KeyError"
    ELSE IF ~Parseable(TextOf(p, K_IntensityUT)) THEN "ValueError"
    ELSE "none"

\* the indices of the tests that are read as Tone tests
ToneTestIdx(doc) ==
    {i \in 1..Len(TestsOf(doc)) : TestPathOk(TestsOf(doc)[i]) /\ IsToneTest(TestsOf(doc)[i])}

\* the Measured blocks of the Tone tests: <<test, block>>
BlockIds(doc) ==
    UNION { {<<i, j>> : j \in 1..Len(MeasuredOf(TestsOf(doc)[i]))} : i \in ToneTestIdx(doc) }

BlockAt(doc, b) == MeasuredOf(TestsOf(doc)[b[1]])[b[2]]

\* the tone points of the blocks that are read: <<test, block, point>>
PointIds(doc) ==
    UNION { {<<b[1], b[2], k>> : k \in 1..Len(PointsOf(BlockAt(doc, b)))} :
              b \in {x \in BlockIds(doc) : BlockPathOk(BlockAt(doc, x))} }

PointAt(doc, q) == PointsOf(BlockAt(doc, <<q[1], q[2]>>))[q[3]]

\* every place where the document departs from what the extractor reads, with
\* the error reading it gives, at <<test, block, point>> (0: above that level)
Defects(doc) ==
    IF ~RootOk(doc) THEN {[pos |-> <<0, 0, 0>>, err |-> "KeyError"]}
    ELSE {[pos |-> <<i, 0, 0>>, err |-> "KeyError"] :
              i \in {x \in 1..Len(TestsOf(doc)) : ~TestPathOk(TestsOf(doc)[x])}}
         \cup {[pos |-> <<b[1], b[2], 0>>, err |-> "KeyError"] :
              b \in {x \in BlockIds(doc) : ~BlockPathOk(BlockAt(doc, x))}}
         \cup {[pos |-> q, err |-> PointDefect(PointAt(doc, q))] :
              q \in {x \in PointIds(doc) : PointDefect(PointAt(doc, x)) # "none"}}

\* order of reading: test by test, block by block, point by point
Before(a, b) ==
    \E n \in 1..Len(a) : a[n] < b[n] /\ \A m \in 1..(n - 1) : a[m] = b[m]

\* the error of the first defect in the order of reading, "none" without defect
FirstDefect(doc) ==
    LET ds == Defects(doc)
    IN  IF ds = {} THEN "none"
        ELSE (CHOOSE x \in ds : \A y \in ds : y.pos = x.pos \/ Before(x.pos, y.pos)).err

\* the tone points of every block of a Tone test that has a Tone child
AllPointIds(doc) ==
    UNION { {<<b[1], b[2], k>> : k \in 1..Len(PointsOf(BlockAt(doc, b)))} :
              b \in {x \in BlockIds(doc) : HasKid(BlockAt(doc, x), K_Tone)} }

\* some expected key path is absent
PathAbsent(doc) ==
    \/ ~RootOk(doc)
    \/ \E i \in 1..Len(TestsOf(doc)) : ~TestPathOk(TestsOf(doc)[i])
    \/ \E b \in BlockIds(doc) : ~BlockPathOk(BlockAt(doc, b))
    \/ \E q \in AllPointIds(doc) : ~PointPathOk(PointAt(doc, q))

\* some tone point of a Tone test has text that is no integer
HasBadInt(doc) ==
    /\ RootOk(doc)
    /\ \E q \in AllPointIds(doc) : PointBadInt(PointAt(doc, q))

\* a document of the expected shape
ExpectedShape(doc) == Defects(doc) = {}

\* the ear side labels of the Measured blocks of the Tone tests
EarLabels(doc) == {EarOf(BlockAt(doc, b)) : b \in BlockIds(doc)}

\* the last block, in document order, that carries ear side label e
LastBlockOf(doc, e) ==
    CHOOSE b \in BlockIds(doc) :
        /\ EarOf(BlockAt(doc, b)) = e
        /\ \A c \in BlockIds(doc) :
             EarOf(BlockAt(doc, c)) = e => (c = b \/ Before(c, b))

PairOf(p) == <<IntOf(TextOf(p, K_Frequency)), IntOf(TextOf(p, K_IntensityUT))>>

\* all (frequency, threshold) pairs of a block
AllPairs(b) == {PairOf(PointsOf(b)[k]) : k \in 1..Len(PointsOf(b))}

\* for each frequency of a block, the pair of its last tone point
LastPairs(b) ==
    {PairOf(PointsOf(b)[k]) :
       k \in {x \in 1..Len(PointsOf(b)) :
                \A y \in (x + 1)..Len(PointsOf(b)) :
                   PairOf(PointsOf(b)[y])[1] # PairOf(PointsOf(b)[x])[1]}}

\* the frequencies a block names more than once
RepeatedFreqs(b) ==
    {PairOf(PointsOf(b)[x])[1] :
       x \in {x \in 1..Len(PointsOf(b)) :
                \E y \in 1..Len(PointsOf(b)) :
                   y # x /\ PairOf(PointsOf(b)[y])[1] = PairOf(PointsOf(b)[x])[1]}}

\* the result handed to the caller
RetEars      == KeysOf(ret.l)
RetPairs(e)  == {<<x.k, x.v>> : x \in Range(Lookup(ret.l, e))}
Returned     == pc = "returned"
Ended        == pc \in {"returned", "raised"}

-----------------------------------------------------------------------------
(* Properties of parse_audiometry *)

\* C1 as stated: for every document of the expected shape the call returns, the
\* keys of the result are the ear side labels of the Measured blocks of the Tone
\* tests, and each block's ear side maps exactly the (int(Frequency),
\* int(IntensityUT)) pairs of that block's tone points.
C1_ResultHoldsEveryPairOfEveryBlock ==
    (Ended /\ ExpectedShape(tree0)) =>
        /\ Returned
        /\ RetEars = EarLabels(tree0)
        /\ \A b \in BlockIds(tree0) :
             RetPairs(EarOf(BlockAt(tree0, b))) = AllPairs(BlockAt(tree0, b))

\* C1 as amended: for every document of the expected shape the call returns, the
\* keys of the result are the ear side labels of the Measured blocks of the Tone
\* tests, and each ear side maps exactly the pairs of the last block carrying
\* that label, a repeated frequency keeping the pair of its last tone point.
C1_ResultHoldsLastPairsOfLastBlock ==
    (Ended /\ ExpectedShape(tree0)) =>
        /\ Returned
        /\ RetEars = EarLabels(tree0)
        /\ \A e \in EarLabels(tree0) :
             RetPairs(e) = LastPairs(BlockAt(tree0, LastBlockOf(tree0, e)))

\* one Left block with points (1000, 20), (2000, -5) and no Right block
C1_Witness ==
    /\ Returned
    /\ ExpectedShape(tree0)
    /\ ret = AudiogramV(<<[k |-> K_Left, v |-> <<[k |-> 1000, v |-> 20], [k |-> 2000, v |-> 0 - 5]>>]>>)

\* every test has a TestName with a text other than "Tone"
OnlyNonToneTests(doc) ==
    /\ RootOk(doc)
    /\ \A i \in 1..Len(TestsOf(doc)) :
         HasText(TestsOf(doc)[i], K_TestName) /\ ~IsToneTest(TestsOf(doc)[i])

C3_AbsentPathRaisesKeyError ==
    (Ended /\ PathAbsent(tree0)) =>
        (pc = "raised" /\ exc = "KeyError" /\ ret = NoValue)

\* C3 as amended: whenever an expected key path is absent the call returns no
\* result; it ends with the error of the first defect it reads: KeyError, or
\* ValueError when a Frequency or IntensityUT text that is no integer is read
\* before the absent path.
C3_AbsentPathNeverReturns ==
    (Ended /\ PathAbsent(tree0)) =>
        /\ pc = "raised"
        /\ ret = NoValue
        /\ exc = FirstDefect(tree0) /\ exc \in {"KeyError", "ValueError"}

\* a call that raised KeyError after it had filled part of the audiogram
C3_Witness ==
    /\ pc = "raised" /\ exc = "KeyError"
    /\ audiogram # <<>>
    /\ PathAbsent(tree0)

\* C4 as stated: whenever a tone point of a Tone test has Frequency or
\* IntensityUT text that is no integer, the call ends with a ValueFormatError
\* (ValueError) and the caller sees no result.
C4_BadIntRaisesValueError ==
    (Ended /\ HasBadInt(tree0)) =>
        (pc = "raised" /\ exc = "ValueError" /\ ret = NoValue)

\* C4 as amended: whenever a tone point of a Tone test has Frequency or
\* IntensityUT text that is no integer, the call returns no result, however
\* much of the audiogram was filled before; it ends with the error of the first
\* defect it reads: ValueError, or KeyError when an absent key path is read
\* before the text.
C4_BadIntNeverReturns ==
    (Ended /\ HasBadInt(tree0)) =>
        /\ pc = "raised"
        /\ ret = NoValue
        /\ exc = FirstDefect(tree0) /\ exc \in {"KeyError", "ValueError"}

\* a call that raised ValueError after it had filled one ear side and part of another,
\* each with a tone point
C4_Witness ==
    /\ pc = "raised" /\ exc = "ValueError"
    /\ Len(audiogram) >= 2
    /\ \A i \in 1..Len(audiogram) : audiogram[i].v # <<>>
    /\ ret = NoValue
    /\ HasBadInt(tree0)

\* within one ear side each frequency is a key once
FrequenciesOnce ==
    \A i \in 1..Len(ret.l) :
        \A x, y \in 1..Len(ret.l[i].v) : ret.l[i].v[x].k = ret.l[i].v[y].k => x = y

\* C9 as stated: within one ear side of the result each frequency appears once,
\* and when a Measured block repeats a frequency, the result holds for it the
\* threshold of the last tone point of that block with that frequency.
C9_RepeatedFrequencyLastOfItsBlock ==
    (Returned /\ ExpectedShape(tree0)) =>
        /\ FrequenciesOnce
        /\ \A b \in BlockIds(tree0) :
             \A pr \in LastPairs(BlockAt(tree0, b)) :
                pr[1] \in RepeatedFreqs(BlockAt(tree0, b)) =>
                   pr \in RetPairs(EarOf(BlockAt(tree0, b)))

\* C9 as amended: within one ear side of the result each frequency appears once,
\* and when the last Measured block of an ear side repeats a frequency, the
\* result holds for it the threshold of the last tone point of that block with
\* that frequency; the call does not raise.
C9_RepeatedFrequencyLastWins ==
    (Ended /\ ExpectedShape(tree0)) =>
        /\ Returned
        /\ FrequenciesOnce
        /\ \A e \in EarLabels(tree0) :
             LET b == BlockAt(tree0, LastBlockOf(tree0, e))
             IN  \A pr \in LastPairs(b) :
                   pr[1] \in RepeatedFreqs(b) =>
                      /\ pr \in RetPairs(e)
                      /\ \A other \in RetPairs(e) : other[1] = pr[1] => other = pr

\* a returned call on a block that names a frequency twice, with two thresholds
C9_Witness ==
    /\ Returned
    /\ ExpectedShape(tree0)
    /\ \E e \in EarLabels(tree0) :
         LET b == BlockAt(tree0, LastBlockOf(tree0, e))
         IN  \E x, y \in AllPairs(b) : x[1] = y[1] /\ x[2] # y[2]

\* C10: when an ear side label occurs in more than one Measured block, the
\* result holds for it only tone points of the last such block: every frequency
\* of the result is one of that block, so a frequency of an earlier block alone
\* is not in the result.
C10_OnlyLastBlockRemains ==
    (Returned /\ ExpectedShape(tree0)) =>
        \A e \in EarLabels(tree0) :
            /\ RetPairs(e) \subseteq AllPairs(BlockAt(tree0, LastBlockOf(tree0, e)))
            /\ {pr[1] : pr \in RetPairs(e)}
                 = {pr[1] : pr \in AllPairs(BlockAt(tree0, LastBlockOf(tree0, e)))}

\* C10, the step: a Measured block empties the mapping of its own ear side and
\* leaves the mapping of every other ear side as it was.
C10_BlockStep ==
    (pc = "for_s" /\ pc' = "for_tone") =>
        /\ Lookup(audiogram', earside'.s) = <<>>
        /\ \A e \in KeysOf(audiogram) :
             e # earside'.s => (HasKey(audiogram', e) /\ Lookup(audiogram', e) = Lookup(audiogram, e))

\* C10: each Measured block initializes or overwrites the mapping of its ear
\* side and leaves the other ear sides unchanged, so that the result holds, for
\* an ear side of several blocks, only the tone points of the last one.
C10_BlockOverwritesItsEarSideOnly ==
    [](C10_OnlyLastBlockRemains) /\ [][C10_BlockStep]_vars

\* a returned call where Left occurs in two blocks, with Right between them,
\* and the earlier Left block has a frequency the later lacks
C10_Witness ==
    /\ Returned
    /\ ExpectedShape(tree0)
    /\ \E b1, b2, b3 \in BlockIds(tree0) :
         /\ Before(b1, b2) /\ Before(b2, b3)
         /\ EarOf(BlockAt(tree0, b1)) = EarOf(BlockAt(tree0, b3))
         /\ EarOf(BlockAt(tree0, b2)) # EarOf(BlockAt(tree0, b1))
         /\ \E pr \in AllPairs(BlockAt(tree0, b1)) :
              pr[1] \notin {x[1] : x \in AllPairs(BlockAt(tree0, b3))}

-----------------------------------------------------------------------------
(* Properties of the normalizer *)

\* the direct children of r whose tag, namespace removed, is t: their positions
SameTagKids(r, t) == {i \in 1..Len(r.children) : ReSubNs(r.children[i].tag) = t}

\* the position in r.children of the j-th child tagged t
NthKid(r, t, j) ==
    CHOOSE i \in SameTagKids(r, t) :
        Cardinality({k \in SameTagKids(r, t) : k <= i}) = j

\* mapping m holds, under every child tag of r, the sequence of the normalized
\* children of that tag in document order
ChildrenGrouped(r, m) ==
    \A i \in 1..Len(r.children) :
        LET t == ReSubNs(r.children[i].tag)
            n == Cardinality(SameTagKids(r, t))
        IN  /\ t \in DOMAIN m
            /\ m[t].kind = "list"
            /\ Len(m[t].l) = n
            /\ \A j \in 1..n :
                 LET kid == r.children[NthKid(r, t, j)]
                 IN  /\ m[t].l[j].kind = "dict"
                     /\ K_text \in DOMAIN m[t].l[j].m
                     /\ m[t].l[j].m[K_text] = StrV(kid.text)
                     /\ DictifyInner(kid).ok
                     /\ m[t].l[j] = DictV(DictifyInner(kid).d)

\* C5: once dictify has been called on an element, its result holds, under each
\* (namespace-stripped) child tag, one sequence with the normalized children of
\* that tag in document order, for every element.
C5_ChildrenOfOneTagFormOneSequence ==
    pc # "call" =>
        /\ ret.kind = "dict"
        /\ ReSubNs(tree0.tag) \in DOMAIN ret.m
        /\ ChildrenGrouped(tree0, ret.m[ReSubNs(tree0.tag)].m)

\* what does hold: the grouping is right whenever dictify returns
GroupedWhenDictifyReturns ==
    pc = "returned" =>
        /\ ret.kind = "dict"
        /\ ChildrenGrouped(tree0, ret.m[ReSubNs(tree0.tag)].m)

\* C6: dictify is total: on every well-formed element tree it returns a mapping
\* and never raises.
C6_DictifyNeverRaises == pc # "raised"

\* C7: after dictify returns, every element of the input tree has the tag,
\* attributes, text and children it had before the call.
C7_InputTreeUnchanged == pc = "returned" => tree = tree0

\* what does hold: the root keeps its tag, and attributes and texts are kept
RootTagKept == pc # "call" => (tree.tag = tree0.tag /\ tree.attrib = tree0.attrib /\ tree.text = tree0.text)

====
